---- MODULE Spec2Model ----
(***************************************************************************)
(* Model of the sliding-window step-trace engine of remotion-ai:           *)
(*   - remotion/logic/slidingWindow/trace.ts  (durationsForFps,            *)
(*     traceLongestSubstring)                                              *)
(*   - remotion/scenes/SlidingWindow/Scene.tsx (SlidingWindowScene: the    *)
(*     per-frame projection of a trace, with its useMemo cells)            *)
(*   - remotion/scenes/SlidingWindow/Explainer.tsx                         *)
(*     (lengthOfLongestSubstring, computeExplainerDuration and the         *)
(*     timeline laid out by SlidingWindowExplainer)                        *)
(*   - server/render-queue.ts and server/index.ts (makeRenderQueue: the    *)
(*     job map, the promise chain that renders one job at a time, and the  *)
(*     cancel endpoint)                                                    *)
(*   - src/mastra/workflows/remotion/static.ts and core.ts, and            *)
(*     SelfCriticAgent.reviewAndFix (monitorUntilDoneWorkflow and the      *)
(*     reviewed-explainer workflows)                                       *)
(*   - src/mastra/agents/explain-code-agent.ts (createVisualSpec, the      *)
(*     caller that scales the durations by fps)                            *)
(*                                                                         *)
(* Numbers: every quantity the code computes here is an integer except     *)
(* fps / base and tailSeconds * fps.  Both are modelled as exact           *)
(* rationals (numerator, denominator).  For integer fps no product         *)
(* v * fps / 30 with v in {6, 8, 10, 12} lies at k + 1/2, and the dyadic   *)
(* tailSeconds used below are exact doubles, so Math.round on the double   *)
(* and on the rational agree.                                              *)
(***************************************************************************)
EXTENDS Integers, Sequences, FiniteSets, TLC

VARIABLES
    s,           \* the input string (a sequence of one-character strings)
    caller,      \* the call site that invokes traceLongestSubstring
    cfg,         \* the TraceConfig the call site passes
    pc,          \* position of the running invocation: "idle" | "loop"
    loc,         \* locals of the running invocation (t, left, bestLen, ...)
    results,     \* the TraceResults returned so far, in call order
    frameOffset, \* SlidingWindowScene prop
    absFrame,    \* useCurrentFrame() of the last render
    frame,       \* Math.max(0, absFrame - frameOffset) of the last render
    stepIndex,   \* useMemo cell, deps [trace.steps, frame]
    derived,     \* useMemo cell, deps [stepIndex, trace.steps]
    rendered,    \* TRUE once the memo cells hold a value
    examples,    \* SlidingWindowExplainer prop: the list of example strings
    epc,         \* position of the explainer's render: "off" | "duration" |
                 \*   "memo" | "intro" | "examples" | "done" | "shown"
    segments,    \* useMemo cell of the explainer: [s, dur] per example
    cursor,      \* let cursor
    sequences,   \* the <Sequence> elements pushed so far
    durationInFrames, \* the composition length, computeExplainerDuration(examples)
    globalFrame, \* the composition's frame at which the timeline is shown
    shown,       \* which example's scene that frame mounts (1-based, 0: none)
    jobs,        \* makeRenderQueue: const jobs = new Map<string, JobState>()
    chain,       \* the job ids whose processRender was chained on `queue`
    chainPos,    \* how many of those callbacks have been started
    queueState,  \* the promise `queue`: "idle" | "running" | "rejected"
    signalled,   \* the running render's cancelSignal has been triggered
    response,    \* what the cancel endpoint answered last
    monitored,   \* monitorUntilDoneWorkflow input: jobIds
    mpc,         \* monitorUntilDoneWorkflow: "off" | "polling" | "exited"
    summary,     \* the summary of the last monitorTick
    review,      \* input of the reviewed-explainer workflow
    rpc,         \* its position: "off" | "review" | "check" | "queue" | "done"
    iteration,   \* its iteration counter
    loop,        \* the iteration numbers of the reviews performed
    shouldStop   \* shouldStop of the last review

vars == <<s, caller, cfg, pc, loc, results,
          frameOffset, absFrame, frame, stepIndex, derived, rendered,
          examples, epc, segments, cursor, sequences, durationInFrames,
          globalFrame, shown,
          jobs, chain, chainPos, queueState, signalled, response,
          monitored, mpc, summary,
          review, rpc, iteration, loop, shouldStop>>

traceVars == <<s, caller, cfg, pc, loc, results>>
sceneVars == <<frameOffset, absFrame, frame, stepIndex, derived, rendered>>
explainerVars == <<examples, epc, segments, cursor, sequences, durationInFrames,
                   globalFrame, shown>>
screenVars == <<globalFrame, shown>>
queueVars == <<jobs, chain, chainPos, queueState, signalled, response>>
monitorVars == <<monitored, mpc, summary>>
reviewVars == <<review, rpc, iteration, loop, shouldStop>>
serverVars == <<queueVars, monitorVars, reviewVars>>

----------------------------------------------------------------------------
(* Bounds of the model *)

MaxLen == 4          \* all strings over Alphabet up to this length
MaxDur == 2          \* entries of the caller-supplied duration tables
MaxFps == 90         \* createVisualSpec is called with fps in 1..MaxFps
MaxCalls == 2        \* invocations of traceLongestSubstring per behaviour
MaxFrameOffset == 1  \* frameOffset prop is 0 or MaxFrameOffset
MaxExamples == 3     \* length of the explainer's example list
MaxJobs == 3         \* render jobs created per behaviour
MaxProgress == 1     \* onProgress reports 1..MaxProgress (of MaxProgress)
MaxIterations == 3   \* maxIterations of the reviewed-explainer workflow

Alphabet == {"a", "b", "c"}

Max(a, b) == IF a >= b THEN a ELSE b

----------------------------------------------------------------------------
(* server/render-queue.ts: makeRenderQueue *)

\* randomUUID(): the k-th job created gets the fresh id k
JobIds == 1..MaxJobs

\* an id that no job ever gets
UnknownJobId == MaxJobs + 1

NoJobs == [j \in {} |-> 0]

\* the answer of the cancel endpoint; n tells one request from the next
NoResponse == [jobId |-> 0, message |-> "none", n |-> 0]

Has(j) == j \in DOMAIN jobs

\* jobs.set(jobId, state)
JobsSet(j, state) == [k \in DOMAIN jobs \cup {j} |-> IF k = j THEN state ELSE jobs[k]]

\* jobs.delete(jobId)
JobsDelete(j) == [k \in DOMAIN jobs \ {j} |-> jobs[k]]

\* A reaction of the promise chain is due: `queue` is fulfilled and a
\* callback chained on it has not run.  Microtasks run before any timer or
\* request handler.
MicrotaskPendingWhileRunning == chainPos < Len(chain)
MicrotaskPending == queueState = "idle" /\ chainPos < Len(chain)

\* createJob(data): jobId = randomUUID(); queueRender({jobId, data}):
\*   jobs.set(jobId, {status: "queued", data, cancel: () => jobs.delete(jobId)})
\*   queue = queue.then(() => processRender(jobId))
createJob ==
    LET jobId == Len(chain) + 1 IN
    /\ jobs' = JobsSet(jobId, [status |-> "queued"])
    /\ chain' = Append(chain, jobId)

\* a caller (POST /renders, createRenderJob, a workflow) creates a job
CreateJob ==
    /\ Len(chain) < MaxJobs
    /\ createJob
    /\ UNCHANGED <<chainPos, queueState, signalled, response>>
    /\ UNCHANGED <<monitorVars, reviewVars>>
    /\ UNCHANGED <<traceVars, sceneVars, explainerVars>>

\* The next callback of the chain runs processRender(jobId) up to its first
\* await: a missing job throws, which rejects `queue`; otherwise the job is
\* set to in-progress with progress 0 and a fresh cancel signal.
StartRender ==
    /\ MicrotaskPending
    /\ LET jobId == chain[chainPos + 1] IN
       IF Has(jobId)
       THEN /\ jobs' = JobsSet(jobId, [status |-> "in-progress", progress |-> 0])
            /\ queueState' = "running"
       ELSE /\ jobs' = jobs
            /\ queueState' = "rejected"
    /\ chainPos' = chainPos + 1
    /\ signalled' = FALSE
    /\ UNCHANGED <<chain, response>>
    /\ UNCHANGED <<monitorVars, reviewVars>>
    /\ UNCHANGED <<traceVars, sceneVars, explainerVars>>

\* the job processRender is working on
RunningJob == chain[chainPos]

\* onProgress: jobs.set(jobId, {progress: progress.progress, status: "in-progress", ...})
Progress(p) ==
    /\ queueState = "running"
    /\ p > jobs[RunningJob].progress
    /\ jobs' = JobsSet(RunningJob, [status |-> "in-progress", progress |-> p])
    /\ UNCHANGED <<chain, chainPos, queueState, signalled, response>>
    /\ UNCHANGED <<monitorVars, reviewVars>>
    /\ UNCHANGED <<traceVars, sceneVars, explainerVars>>

\* how a render can end: renderMedia rejects once its cancel signal is
\* triggered; otherwise it resolves or throws
Outcomes == IF signalled THEN {"failed"} ELSE {"completed", "failed"}

\* renderMedia settles: jobs.set(jobId, {status: "completed", videoUrl}) or, in
\* the catch, jobs.set(jobId, {status: "failed", error}); processRender
\* returns, which fulfils its link of the chain.
FinishRender(outcome) ==
    /\ queueState = "running"
    /\ outcome \in Outcomes
    /\ jobs' = JobsSet(RunningJob,
                  IF outcome = "completed"
                  THEN [status |-> "completed", videoUrl |-> RunningJob]
                  ELSE [status |-> "failed", error |-> signalled])
    /\ queueState' = "idle"
    /\ UNCHANGED <<chain, chainPos, signalled, response>>
    /\ UNCHANGED <<monitorVars, reviewVars>>
    /\ UNCHANGED <<traceVars, sceneVars, explainerVars>>

\* job.status !== "queued" && job.status !== "in-progress"
NotCancellableNever(j) == FALSE
NotCancellable(j) == jobs[j].status # "queued" /\ jobs[j].status # "in-progress"

\* app.delete("/renders/:jobId") and the cancelRenderJob tool
Cancel(j) ==
    /\ ~MicrotaskPending
    /\ IF ~Has(j)
       THEN /\ response' = [jobId |-> j, message |-> "Job not found", n |-> 1 - response.n]
            /\ UNCHANGED <<jobs, signalled>>
       ELSE IF NotCancellable(j)
       THEN /\ response' = [jobId |-> j, message |-> "Job is not cancellable",
                         n |-> 1 - response.n]
            /\ UNCHANGED <<jobs, signalled>>
       ELSE /\ response' = [jobId |-> j, message |-> "Job cancelled", n |-> 1 - response.n]
            /\ IF jobs[j].status = "queued"
               THEN jobs' = JobsDelete(j) /\ UNCHANGED signalled
               ELSE signalled' = TRUE /\ UNCHANGED jobs
    /\ UNCHANGED <<chain, chainPos, queueState>>
    /\ UNCHANGED <<monitorVars, reviewVars>>
    /\ UNCHANGED <<traceVars, sceneVars, explainerVars>>

----------------------------------------------------------------------------
(* workflows/remotion/static.ts: monitorUntilDoneWorkflow *)

NoSummary == [completed |-> -1, inProgress |-> -1, failed |-> -1]

\* monitorTickStep: statuses of the given jobs that are in the map, and
\* summary = {completed, inProgress, failed} counted by status
SummaryOf(jobIds) ==
    LET statuses == {j \in jobIds : Has(j)}
    IN [completed |-> Cardinality({j \in statuses : jobs[j].status = "completed"}),
        inProgress |-> Cardinality({j \in statuses : jobs[j].status = "in-progress"}),
        failed |-> Cardinality({j \in statuses : jobs[j].status = "failed"})]

\* the dountil condition: Boolean(s) && s.inProgress === 0
Done(sm) == sm.inProgress = 0

\* the workflow is started for some of the jobs created so far (initOnlyStep)
StartMonitor(jobIds) ==
    /\ mpc = "off"
    /\ jobIds # {}
    /\ jobIds \subseteq 1..Len(chain)
    /\ monitored' = jobIds
    /\ mpc' = "polling"
    /\ UNCHANGED summary
    /\ UNCHANGED <<queueVars, reviewVars>>
    /\ UNCHANGED <<traceVars, sceneVars, explainerVars>>

\* one pass of dountil(monitorTickStep, cond): the step runs after its
\* setTimeout, then the condition decides whether the loop ends
MonitorTick ==
    /\ mpc = "polling"
    /\ ~MicrotaskPending
    /\ summary' = SummaryOf(monitored)
    /\ mpc' = IF Done(summary') THEN "exited" ELSE "polling"
    /\ UNCHANGED monitored
    /\ UNCHANGED <<queueVars, reviewVars>>
    /\ UNCHANGED <<traceVars, sceneVars, explainerVars>>

----------------------------------------------------------------------------
(* SelfCriticAgent.reviewAndFix and the reviewed-explainer workflows *)

NoReview == [impl |-> "none"]

\* this.options.maxIterations ?? 1: both workflows build the agent with
\* new SelfCriticAgent({ docsProvider }), so the option is never set
criticMaxIterations == 1

\* SuccessCriteria in tenths of a score; the defaults of reviewAndFix:
\* minScore 0.9, maxIssues 0, requireNoErrors true, requiredCitations 1
DefaultCriteria == [minScore |-> 9, maxIssues |-> 0, requiredCitations |-> 1]

\* { ...defaults, ...(args.criteria || {}) }
MergedCriteria(c) ==
    [n \in DOMAIN DefaultCriteria |-> IF n \in DOMAIN c THEN c[n] ELSE DefaultCriteria[n]]

\* the issues of the review: a title or an intro shorter than 3 characters
IssuesOf(r) == (IF r.titleOk THEN 0 ELSE 1) + (IF r.introOk THEN 0 ELSE 1)

\* score = issues.length === 0 ? 1 : Math.max(0, 1 - issues.length * 0.1), in tenths
ScoreOf(r) == IF IssuesOf(r) = 0 THEN 10 ELSE Max(0, 10 - IssuesOf(r))

\* metScore && metIssueCap && metErrorRule && metCitations (no issue of
\* severity error is ever raised, so metErrorRule is true)
MetCriteria(r) ==
    LET c == MergedCriteria(r.criteria)
    IN /\ ScoreOf(r) >= c.minScore
       /\ IssuesOf(r) <= c.maxIssues
       /\ r.citations >= c.requiredCitations

\* shouldStop = metCriteria || iteration >= (this.options.maxIterations ?? 1)
ShouldStop(r, i) == MetCriteria(r) \/ i >= criticMaxIterations

\* criteria a caller passes: none, or a lenient set
CriteriaValues ==
    {[n \in {} |-> 0], [minScore |-> 8, maxIssues |-> 2, requiredCitations |-> 0]}

\* Inputs of the workflows.  explainerInputZ bounds maxIterations of the
\* step-based workflow to 1..10; the class method takes any number.
ReviewInputs ==
    {[impl |-> i, maxIterations |-> m, titleOk |-> a, introOk |-> b,
      citations |-> n, criteria |-> c] :
        i \in {"class", "static"}, m \in 0..MaxIterations, a \in BOOLEAN,
        b \in BOOLEAN, n \in 0..1, c \in CriteriaValues}
    \ {r \in [impl : {"static"}, maxIterations : {0}, titleOk : BOOLEAN,
               introOk : BOOLEAN, citations : 0..1, criteria : CriteriaValues] : TRUE}

\* one review: reviewAndFix({..., iteration}), loop.push({iteration, ...});
\* reviewIterationStep also returns iteration + 1
ReviewStep ==
    /\ rpc = "review"
    /\ loop' = Append(loop, iteration)
    /\ shouldStop' = ShouldStop(review, iteration)
    /\ iteration' = IF review.impl = "static" THEN iteration + 1 ELSE iteration
    /\ rpc' = "check"
    /\ UNCHANGED review
    /\ UNCHANGED <<queueVars, monitorVars>>
    /\ UNCHANGED <<traceVars, sceneVars, explainerVars>>

\* class:  if (shouldStop) break;  i++;  i <= Math.max(1, maxIterations)
\* static: dowhile condition  !shouldStop && iteration <= maxIterations
LoopCheck ==
    /\ rpc = "check"
    /\ IF review.impl = "class"
       THEN IF shouldStop
            THEN rpc' = "queue" /\ UNCHANGED iteration
            ELSE /\ iteration' = iteration + 1
                 /\ rpc' = IF iteration' <= Max(1, review.maxIterations)
                            THEN "review" ELSE "queue"
       ELSE /\ rpc' = IF ~shouldStop /\ iteration <= review.maxIterations
                       THEN "review" ELSE "queue"
            /\ UNCHANGED iteration
    /\ UNCHANGED <<review, loop, shouldStop>>
    /\ UNCHANGED <<queueVars, monitorVars>>
    /\ UNCHANGED <<traceVars, sceneVars, explainerVars>>

\* renderQueue.createJob({compositionId: "LongestSubstringExplainer", props})
QueueRender ==
    /\ rpc = "queue"
    /\ createJob
    /\ rpc' = "done"
    /\ UNCHANGED <<chainPos, queueState, signalled, response>>
    /\ UNCHANGED <<review, iteration, loop, shouldStop>>
    /\ UNCHANGED monitorVars
    /\ UNCHANGED <<traceVars, sceneVars, explainerVars>>

\* No render server and no workflow is running.
ServerOff ==
    /\ jobs = NoJobs
    /\ chain = <<>>
    /\ chainPos = 0
    /\ queueState = "idle"
    /\ signalled = FALSE
    /\ response = NoResponse
    /\ monitored = {}
    /\ mpc = "off"
    /\ summary = NoSummary
    /\ review = NoReview
    /\ rpc = "off"
    /\ iteration = 0
    /\ loop = <<>>
    /\ shouldStop = FALSE

----------------------------------------------------------------------------
(* trace.ts: duration model *)

DurationNames == {"moveRight", "add", "duplicate", "moveLeftEach", "updateBest"}

defaultDurations ==
    [moveRight |-> 12, add |-> 6, duplicate |-> 10, moveLeftEach |-> 8, updateBest |-> 8]

baseFps == 30

\* Math.round of the rational n / d (d > 0): floor(n / d + 1/2).
MathRoundTruncating(n, d) == n \div d
MathRound(n, d) == (2 * n + d) \div (2 * d)

\* durationsForFps: scale = fps / base; round = max(1, Math.round(n * scale)).
durationsForFpsInverted(fps, base) ==
    [n \in DurationNames |-> Max(1, MathRound(defaultDurations[n] * (2 * base - fps), base))]
durationsForFps(fps, base) ==
    [n \in DurationNames |-> Max(1, MathRound(defaultDurations[n] * fps, base))]

----------------------------------------------------------------------------
(* trace.ts: traceLongestSubstring *)

\* The TraceConfig without any field, `{}`.
NoCfg == [x \in {} |-> 0]

\* const D = { ...defaultDurations, ...(cfg.durations ?? {}) }
MergedDurations(c) ==
    [n \in DurationNames |->
        IF "durations" \in DOMAIN c /\ n \in DOMAIN c.durations
        THEN c.durations[n] ELSE defaultDurations[n]]

\* let t = 0; let left = 0; let bestLen = 0; new Map(); steps = []; right = 0
InitLocals ==
    [t |-> 0, left |-> 0, bestLen |-> 0, lastSeen |-> [c \in {} |-> 0],
     steps |-> <<>>, right |-> 0]

\* const char = s[right]   (s is 1-indexed here, right is 0-based as in the code)
CharAt(str, i) == str[i + 1]

\* steps.push({t, type: 'moveRight', index: right, char}); t += D.moveRight
EmitMoveRight(l, str, D) ==
    [l EXCEPT
        !.steps = Append(@, [t |-> l.t, type |-> "moveRight",
                             index |-> l.right, char |-> CharAt(str, l.right)]),
        !.t = @ + D.moveRight]

\* prevIndex !== undefined && prevIndex >= left
DuplicateInWindowUnguarded(l, char) == char \in DOMAIN l.lastSeen
DuplicateInWindow(l, char) ==
    char \in DOMAIN l.lastSeen /\ l.lastSeen[char] >= l.left

\* Math.max(1, newLeft - left) * D.moveLeftEach
MoveLeftFramesSwapped(from, to, D) == (from - to) * D.moveLeftEach
MoveLeftFrames(from, to, D) == Max(1, to - from) * D.moveLeftEach

\* the duplicate branch: foundDuplicate, then moveLeftUntil, then left = newLeft
HandleDuplicateEvictOne(l, str, D) ==
    LET char == CharAt(str, l.right) IN
    IF DuplicateInWindow(l, char)
    THEN LET newLeft == l.left + 1
             tDup == l.t + D.duplicate
         IN [l EXCEPT
                !.steps = @ \o <<[t |-> l.t, type |-> "foundDuplicate",
                                  char |-> char, atIndex |-> l.right],
                                 [t |-> tDup, type |-> "moveLeftUntil",
                                  fromIndex |-> l.left, stopAtIndex |-> newLeft]>>,
                !.t = tDup + MoveLeftFrames(l.left, newLeft, D),
                !.left = newLeft]
    ELSE l
HandleDuplicate(l, str, D) ==
    LET char == CharAt(str, l.right) IN
    IF DuplicateInWindow(l, char)
    THEN LET newLeft == l.lastSeen[char] + 1
             tDup == l.t + D.duplicate
         IN [l EXCEPT
                !.steps = @ \o <<[t |-> l.t, type |-> "foundDuplicate",
                                  char |-> char, atIndex |-> l.right],
                                 [t |-> tDup, type |-> "moveLeftUntil",
                                  fromIndex |-> l.left, stopAtIndex |-> newLeft]>>,
                !.t = tDup + MoveLeftFrames(l.left, newLeft, D),
                !.left = newLeft]
    ELSE l

\* steps.push({t, type: 'addToSet', char}); t += D.add
EmitAddToSet(l, str, D) ==
    [l EXCEPT
        !.steps = Append(@, [t |-> l.t, type |-> "addToSet",
                             char |-> CharAt(str, l.right)]),
        !.t = @ + D.add]

\* if (currLen > bestLen)
ExceedsBestOrTies(currLen, bestLen) == currLen >= bestLen
ExceedsBest(currLen, bestLen) == currLen > bestLen

\* the updateBest branch
UpdateBest(l, D) ==
    LET currLen == l.right - l.left + 1 IN
    IF ExceedsBest(currLen, l.bestLen)
    THEN [l EXCEPT
            !.bestLen = currLen,
            !.steps = Append(@, [t |-> l.t, type |-> "updateBest",
                                 start |-> l.left, end |-> l.right]),
            !.t = @ + D.updateBest]
    ELSE l

\* lastSeen.set(char, right); right++
SetLastSeen(l, str) ==
    LET char == CharAt(str, l.right) IN
    [l EXCEPT
        !.lastSeen = [c \in DOMAIN l.lastSeen \cup {char} |->
                        IF c = char THEN l.right ELSE l.lastSeen[c]],
        !.right = @ + 1]

\* One iteration of the for loop.
IterationBestBeforeAdd(l, str, D) ==
    SetLastSeen(EmitAddToSet(UpdateBest(HandleDuplicate(EmitMoveRight(l, str, D), str, D), D), str, D), str)
Iteration(l, str, D) ==
    SetLastSeen(UpdateBest(EmitAddToSet(HandleDuplicate(EmitMoveRight(l, str, D), str, D), str, D), D), str)

\* tailSeconds is a rational [num, den]; cfg.tailSeconds ?? 1
TailSec(c) == IF "tailSeconds" \in DOMAIN c THEN c.tailSeconds ELSE [num |-> 1, den |-> 1]

\* cfg.fps ?? baseFps
FpsUsedIgnoringCfg(c) == baseFps
FpsUsed(c) == IF "fps" \in DOMAIN c THEN c.fps ELSE baseFps

\* Math.max(1, Math.round(tailSec * fpsUsed))
TailFramesUnclamped(c) == MathRound(TailSec(c).num * FpsUsed(c), TailSec(c).den)
TailFrames(c) == Max(1, MathRound(TailSec(c).num * FpsUsed(c), TailSec(c).den))

\* return { steps, duration: t + tail }
TraceResultOf(l, c) == [steps |-> l.steps, duration |-> l.t + TailFrames(c)]

RECURSIVE RunLoop(_, _, _)
RunLoop(l, str, D) ==
    IF l.right < Len(str) THEN RunLoop(Iteration(l, str, D), str, D) ELSE l

\* The whole function, for the callers that use only its value.
traceLongestSubstring(str, c) ==
    TraceResultOf(RunLoop(InitLocals, str, MergedDurations(c)), c)

----------------------------------------------------------------------------
(* Explainer.tsx: the set-based reference shown in the code panel *)

\* while (set.has(c)) { set.delete(s[left]); left++; }
RECURSIVE EvictUntilAbsent(_, _, _, _)
EvictUntilAbsent(set, lft, c, str) ==
    IF c \in set
    THEN EvictUntilAbsent(set \ {CharAt(str, lft)}, lft + 1, c, str)
    ELSE [set |-> set, left |-> lft]

\* one iteration: evict, set.add(c), best = Math.max(best, right - left + 1)
RECURSIVE ReferenceLoop(_, _, _)
ReferenceLoop(st, rgt, str) ==
    IF rgt < Len(str)
    THEN LET c == CharAt(str, rgt)
             ev == EvictUntilAbsent(st.set, st.left, c, str)
         IN ReferenceLoop([set |-> ev.set \cup {c}, left |-> ev.left,
                           best |-> Max(st.best, rgt - ev.left + 1)],
                          rgt + 1, str)
    ELSE st

lengthOfLongestSubstring(str) ==
    ReferenceLoop([set |-> {}, left |-> 0, best |-> 0], 0, str).best

----------------------------------------------------------------------------
(* Inputs *)

Strings == UNION {[1..n -> Alphabet] : n \in 0..MaxLen}

Abcabcbb == <<"a", "b", "c", "a", "b", "c", "b", "b">>
Bbbbb == <<"b", "b", "b", "b", "b">>
Pwwkew == <<"p", "w", "w", "k", "e", "w">>

\* the default examples of the explainer, and the empty string
Examples == {<<>>, Abcabcbb, Bbbbb, Pwwkew}

\* caller-supplied tables: all entries equal, or one entry MaxDur and the others 1
Tables ==
    {[n \in DurationNames |-> v] : v \in 1..MaxDur}
    \cup {[n \in DurationNames |-> IF n = m THEN MaxDur ELSE 1] : m \in DurationNames}

\* tailSeconds values, all exact in binary floating point
TailValues ==
    {[num |-> 0, den |-> 1], [num |-> 1, den |-> 2], [num |-> 1, den |-> 1],
     [num |-> 3, den |-> 2], [num |-> 1, den |-> 64], [num |-> -1, den |-> 2]}

TailFpsValues == {1, 24, 30, 60}

SceneCaller == [site |-> "Scene"]

\* a direct call without a config, traceLongestSubstring(s)
PlainCaller == [site |-> "direct", cfg |-> NoCfg]

\* fps values a caller must not pass, which nothing in the code refuses
\* (createVisualSpec is handed options.fps || 60, so never 0)
NegativeFps == {-1, -30}

SpecCallers ==
    {[site |-> "createVisualSpec", fps |-> f] : f \in (1..MaxFps) \cup NegativeFps}

\* a direct call with the table and the rate of fps = 0:
\* traceLongestSubstring(s, {durations: durationsForFps(0), fps: 0})
ZeroFpsCaller ==
    [site |-> "direct", cfg |-> [durations |-> durationsForFps(0, baseFps), fps |-> 0]]

TableCallers == {[site |-> "direct", cfg |-> [durations |-> d]] : d \in Tables}

PartialCallers ==
    {[site |-> "direct", cfg |-> [durations |-> [n \in {m} |-> v]]] :
        m \in DurationNames, v \in 1..MaxDur}

TailCallers ==
    {[site |-> "direct", cfg |-> [fps |-> f, tailSeconds |-> x]] :
        f \in TailFpsValues, x \in TailValues}
    \cup {[site |-> "direct", cfg |-> [tailSeconds |-> x]] : x \in TailValues}

Callers == {SceneCaller, PlainCaller, ZeroFpsCaller} \cup SpecCallers \cup TableCallers \cup PartialCallers \cup TailCallers

\* Callers paired with every string; the others run on the Examples only.
PrimaryCallers ==
    {SceneCaller, PlainCaller} \cup TableCallers
    \cup {c \in SpecCallers : c.fps % baseFps = 0}

\* The config each call site passes.
\*   Scene.tsx: traceLongestSubstring(s)
\*   explain-code-agent.ts: traceLongestSubstring(example, {durations: durationsForFps(fps), fps})
CfgOf(c) ==
    CASE c.site = "Scene" -> NoCfg
      [] c.site = "createVisualSpec" ->
            [durations |-> durationsForFps(c.fps, baseFps), fps |-> c.fps]
      [] OTHER -> c.cfg

----------------------------------------------------------------------------
(* Scene.tsx: the projection of a trace at a frame *)

\* let left = 0; let right = -1; let best = 0   (threw: the callback raised)
NoDerived == [left |-> 0, right |-> -1, best |-> 0, threw |-> FALSE]

\* let idx = -1; for (i ...) { if (st.t <= frame) idx = i; else break; }
RECURSIVE ScanSteps(_, _, _, _)
ScanSteps(steps, f, i, idx) ==
    IF i < Len(steps)
    THEN IF steps[i + 1].t <= f THEN ScanSteps(steps, f, i + 1, i) ELSE idx
    ELSE idx

\* return Math.max(0, idx)   (0-based, as in the code)
StepIndexOf(steps, f) == Max(0, ScanSteps(steps, f, 0, -1))

\* the switch on st.type
ApplyStepFromIndex(d, st) ==
    CASE st.type = "moveRight" -> [d EXCEPT !.right = st.index]
      [] st.type = "moveLeftUntil" -> [d EXCEPT !.left = st.fromIndex]
      [] st.type = "updateBest" -> [d EXCEPT !.best = st.end - st.start + 1]
      [] OTHER -> d
ApplyStep(d, st) ==
    CASE st.type = "moveRight" -> [d EXCEPT !.right = st.index]
      [] st.type = "moveLeftUntil" -> [d EXCEPT !.left = st.stopAtIndex]
      [] st.type = "updateBest" -> [d EXCEPT !.best = st.end - st.start + 1]
      [] OTHER -> d

\* for (let i = 0; i <= stepIndex; i++) { const st = trace.steps[i]; switch (st.type) ... }
\* trace.steps[i] past the end is undefined, and st.type then raises a TypeError.
RECURSIVE FoldFrom(_, _, _, _)
FoldFrom(steps, i, last, d) ==
    IF i > last THEN d
    ELSE IF i >= Len(steps) THEN [d EXCEPT !.threw = TRUE]
    ELSE FoldFrom(steps, i + 1, last, ApplyStep(d, steps[i + 1]))

Derived(steps, idx) == FoldFrom(steps, 0, idx, NoDerived)

\* The fold of every event of a trace (of no event: the initial values).
FoldAll(steps) == FoldFrom(steps, 0, Len(steps) - 1, NoDerived)

\* const trace = useMemo(() => traceLongestSubstring(s), [s])
SceneTrace == results[1]

\* Frames at which the scene is rendered: every step timestamp and the frame
\* before it (the frames at which the comparisons st.t <= frame change),
\* frame 0 and the end of the trace, as seen through the frameOffset; and
\* absolute frame 0.
FrameInputs ==
    IF results = <<>> THEN {}
    ELSE LET tr == SceneTrace
             stamps == {tr.steps[i].t : i \in 1..Len(tr.steps)}
             local == {0, tr.duration - 1, tr.duration}
                      \cup stamps \cup {x - 1 : x \in stamps \ {0}}
         IN {0} \cup {frameOffset + x : x \in local}

----------------------------------------------------------------------------
(* Explainer.tsx: the timeline of the explainer composition *)

\* const intro = 120 / const introFrames = 120
introFrames == 120
\* const overlap = 3
overlap == 3
\* const outro = 120 / const outroFrames = 120
outroFrames == 120
\* durationInFrames={Math.min(18, dur)} of the label overlay
labelMaxFrames == 18

Min(a, b) == IF a <= b THEN a ELSE b

\* examples.map((s) => traceLongestSubstring(s).duration).reduce((a, b) => a + b, 0)
RECURSIVE examplesDur(_)
examplesDur(ex) ==
    IF ex = <<>> THEN 0
    ELSE traceLongestSubstring(Head(ex), NoCfg).duration + examplesDur(Tail(ex))

\* const transitions = (examples.length > 0 ? examples.length + 1 : 1)
transitions(ex) == IF Len(ex) > 0 THEN Len(ex) + 1 ELSE 1

computeExplainerDurationNaive(ex) == introFrames + examplesDur(ex) + outroFrames
computeExplainerDuration(ex) ==
    introFrames + examplesDur(ex) + outroFrames - overlap * transitions(ex)

\* examples.map((s) => ({ s, dur: traceLongestSubstring(s).duration }))
SegmentsOf(ex) ==
    [i \in 1..Len(ex) |-> [s |-> ex[i], dur |-> traceLongestSubstring(ex[i], NoCfg).duration]]

\* const start = Math.max(0, cursor - overlap)   (also outroStart)
SegmentStartLate(c) == c + overlap
SegmentStart(c) == Max(0, c - overlap)

\* cursor = start + dur
NextCursorDroppingStart(start, dur) == dur
NextCursor(start, dur) == start + dur

\* The strings the explainer is given: its default examples, the empty
\* string and a one-symbol string.
ExampleStrings == Examples \cup {<<"a">>}

ExampleLists == UNION {[1..n -> ExampleStrings] : n \in 0..MaxExamples}

\* The explainer is not mounted.
ExplainerOff ==
    /\ examples = <<>>
    /\ epc = "off"
    /\ segments = <<>>
    /\ cursor = 0
    /\ sequences = <<>>
    /\ durationInFrames = 0
    /\ globalFrame = 0
    /\ shown = 0

\* computeExplainerDuration(examples), evaluated for the list the explainer
\* lays out (Root.tsx evaluates it for the default examples).
ComputeDuration ==
    /\ epc = "duration"
    /\ durationInFrames' = computeExplainerDuration(examples)
    /\ epc' = "memo"
    /\ UNCHANGED <<examples, segments, cursor, sequences>>
    /\ UNCHANGED <<traceVars, sceneVars>>
    /\ UNCHANGED screenVars
    /\ UNCHANGED serverVars

\* const segments = useMemo(...); let cursor = 0; const sequences = []
MemoSegments ==
    /\ epc = "memo"
    /\ segments' = SegmentsOf(examples)
    /\ cursor' = 0
    /\ sequences' = <<>>
    /\ epc' = "intro"
    /\ UNCHANGED <<examples, durationInFrames>>
    /\ UNCHANGED <<traceVars, sceneVars>>
    /\ UNCHANGED screenVars
    /\ UNCHANGED serverVars

\* sequences.push(<Sequence key="intro" from={cursor} durationInFrames={introFrames}>)
\* cursor += introFrames
PlaceIntro ==
    /\ epc = "intro"
    /\ sequences' = Append(sequences,
            [key |-> "intro", from |-> cursor, durationInFrames |-> introFrames])
    /\ cursor' = cursor + introFrames
    /\ epc' = "examples"
    /\ UNCHANGED <<examples, segments, durationInFrames>>
    /\ UNCHANGED <<traceVars, sceneVars>>
    /\ UNCHANGED screenVars
    /\ UNCHANGED serverVars

\* number of examples placed so far (each pushes a label and an example Sequence)
PlacedExamples ==
    Cardinality({i \in 1..Len(sequences) : sequences[i].key = "example"})

\* one pass of segments.forEach(({ s, dur }, idx) => { ... })
PlaceExample ==
    /\ epc = "examples"
    /\ PlacedExamples < Len(segments)
    /\ LET dur == segments[PlacedExamples + 1].dur
           start == SegmentStart(cursor)
       IN /\ sequences' = sequences \o
                <<[key |-> "label", from |-> start,
                   durationInFrames |-> Min(labelMaxFrames, dur)],
                  [key |-> "example", from |-> start, durationInFrames |-> dur]>>
          /\ cursor' = NextCursor(start, dur)
    /\ UNCHANGED <<examples, epc, segments, durationInFrames>>
    /\ UNCHANGED <<traceVars, sceneVars>>
    /\ UNCHANGED screenVars
    /\ UNCHANGED serverVars

\* const outroStart = Math.max(0, cursor - overlap)
\* sequences.push(<Sequence key="outro" from={outroStart} durationInFrames={outroFrames}>)
PlaceOutro ==
    /\ epc = "examples"
    /\ PlacedExamples = Len(segments)
    /\ sequences' = Append(sequences,
            [key |-> "outro", from |-> SegmentStart(cursor),
             durationInFrames |-> outroFrames])
    /\ epc' = "done"
    /\ UNCHANGED <<examples, segments, cursor, durationInFrames>>
    /\ UNCHANGED <<traceVars, sceneVars>>
    /\ UNCHANGED screenVars
    /\ UNCHANGED serverVars

\* The explainer composition is mounted with a list of examples; no scene
\* or direct call of the trace generator runs beside it.
ExplainerInit ==
    /\ s = <<>>
    /\ caller = PlainCaller
    /\ cfg = NoCfg
    /\ pc = "idle"
    /\ loc = InitLocals
    /\ results = <<>>
    /\ frameOffset = 0
    /\ absFrame = 0
    /\ frame = 0
    /\ stepIndex = 0
    /\ derived = NoDerived
    /\ rendered = FALSE
    /\ examples \in ExampleLists
    /\ epc = "duration"
    /\ segments = <<>>
    /\ cursor = 0
    /\ sequences = <<>>
    /\ durationInFrames = 0
    /\ globalFrame = 0
    /\ shown = 0
    /\ ServerOff

\* the <Sequence key={`example-${idx}`}> of example i (1-based): the intro is
\* pushed first, then a label and an example Sequence per example
ExampleSequence(i) == sequences[2 * i + 1]

\* useCurrentFrame() of a child of <Sequence from={from}> at the composition's
\* frame g: Remotion hands the children the frame relative to the start of
\* the Sequence.
SequenceFrame(g, from) == g - from

\* Frames of example i's window at which its scene is looked at: the first
\* and the last frame of the window, and for each step of its trace the
\* frame at which the step is due, start + t.
SegmentFrames(i) ==
    IF epc # "done" THEN {}
    ELSE LET q == ExampleSequence(i)
             tr == traceLongestSubstring(segments[i].s, NoCfg)
         IN {q.from, q.from + q.durationInFrames - 1}
            \cup {q.from + tr.steps[j].t : j \in 1..Len(tr.steps)}

\* The composition is at frame g inside the window of example i:
\*   <Sequence from={start} durationInFrames={dur}>
\*     <SlidingWindowScene s={s} frameOffset={start} />
\* mounts the scene, which computes frame, stepIndex and derived.
ShowExample(i, g) ==
    /\ epc = "done"
    /\ i \in 1..Len(segments)
    /\ LET q == ExampleSequence(i)
           tr == traceLongestSubstring(segments[i].s, NoCfg)
       IN /\ q.from <= g /\ g < q.from + q.durationInFrames
          /\ s' = segments[i].s
          /\ frameOffset' = q.from
          /\ absFrame' = SequenceFrame(g, q.from)
          /\ frame' = Max(0, absFrame' - frameOffset')
          /\ stepIndex' = StepIndexOf(tr.steps, frame')
          /\ derived' = Derived(tr.steps, stepIndex')
    /\ rendered' = TRUE
    /\ globalFrame' = g
    /\ shown' = i
    /\ epc' = "shown"
    /\ UNCHANGED <<caller, cfg, pc, loc, results>>
    /\ UNCHANGED <<examples, segments, cursor, sequences, durationInFrames>>
    /\ UNCHANGED serverVars

ExplainerNext ==
    \/ ComputeDuration
    \/ MemoSegments
    \/ PlaceIntro
    \/ PlaceExample
    \/ PlaceOutro
    \/ \E i \in 1..Len(segments) : \E g \in SegmentFrames(i) : ShowExample(i, g)

ExplainerSpec == ExplainerInit /\ [][ExplainerNext]_vars

----------------------------------------------------------------------------
(* The state machine *)

Init ==
    /\ s \in Strings \cup Examples
    /\ caller \in Callers
    /\ caller \in PrimaryCallers \/ s \in Examples
    /\ cfg = NoCfg
    /\ pc = "idle"
    /\ loc = InitLocals
    /\ results = <<>>
    /\ frameOffset \in {0, MaxFrameOffset}
    /\ caller.site # "Scene" => frameOffset = 0
    /\ absFrame = 0
    /\ frame = 0
    /\ stepIndex = 0
    /\ derived = NoDerived
    /\ rendered = FALSE
    /\ ExplainerOff
    /\ ServerOff

\* A call site invokes traceLongestSubstring(s, cfg): fresh locals.  For the
\* scene the first invocation fills its useMemo cell.
CallStale ==
    /\ pc = "idle"
    /\ Len(results) < MaxCalls
    /\ cfg' = CfgOf(caller)
    /\ loc' = [InitLocals EXCEPT !.lastSeen = loc.lastSeen]
    /\ pc' = "loop"
    /\ UNCHANGED <<s, caller, results>>
    /\ UNCHANGED sceneVars
    /\ UNCHANGED explainerVars
    /\ UNCHANGED serverVars
Call ==
    /\ pc = "idle"
    /\ Len(results) < MaxCalls
    /\ cfg' = CfgOf(caller)
    /\ loc' = InitLocals
    /\ pc' = "loop"
    /\ UNCHANGED <<s, caller, results>>
    /\ UNCHANGED sceneVars
    /\ UNCHANGED explainerVars
    /\ UNCHANGED serverVars

\* for (let right = 0; right < s.length; right++) { ... }
LoopIteration ==
    /\ pc = "loop"
    /\ loc.right < Len(s)
    /\ loc' = Iteration(loc, s, MergedDurations(cfg))
    /\ UNCHANGED <<s, caller, cfg, pc, results>>
    /\ UNCHANGED sceneVars
    /\ UNCHANGED explainerVars
    /\ UNCHANGED serverVars

\* loop exit and return
Return ==
    /\ pc = "loop"
    /\ ~(loc.right < Len(s))
    /\ results' = Append(results, TraceResultOf(loc, cfg))
    /\ pc' = "idle"
    /\ UNCHANGED <<s, caller, cfg, loc>>
    /\ UNCHANGED sceneVars
    /\ UNCHANGED explainerVars
    /\ UNCHANGED serverVars

\* useMemo deps of stepIndex: [trace.steps, frame]
StepIndexDepsSame == rendered /\ frame' = frame

\* useMemo deps of derived: [stepIndex, trace.steps]
DerivedDepsSameStale == rendered
DerivedDepsSame == rendered /\ stepIndex' = stepIndex

\* One render of SlidingWindowScene at useCurrentFrame() = f.  Renders and
\* invocations touch disjoint variables; the model schedules the invocations
\* first.
Render(f) ==
    /\ caller.site = "Scene"
    /\ pc = "idle"
    /\ Len(results) = MaxCalls
    /\ absFrame' = f
    /\ frame' = Max(0, f - frameOffset)
    /\ stepIndex' = IF StepIndexDepsSame THEN stepIndex
                    ELSE StepIndexOf(SceneTrace.steps, frame')
    /\ derived' = IF DerivedDepsSame THEN derived
                  ELSE Derived(SceneTrace.steps, stepIndex')
    /\ rendered' = TRUE
    /\ UNCHANGED frameOffset
    /\ UNCHANGED traceVars
    /\ UNCHANGED explainerVars
    /\ UNCHANGED serverVars

Next ==
    \/ Call
    \/ LoopIteration
    \/ Return
    \/ \E f \in FrameInputs : Render(f)

Spec == Init /\ [][Next]_vars

\* No trace generator call, scene or explainer is running.
TraceOff ==
    /\ s = <<>>
    /\ caller = PlainCaller
    /\ cfg = NoCfg
    /\ pc = "idle"
    /\ loc = InitLocals
    /\ results = <<>>
    /\ frameOffset = 0
    /\ absFrame = 0
    /\ frame = 0
    /\ stepIndex = 0
    /\ derived = NoDerived
    /\ rendered = FALSE
    /\ ExplainerOff

\* The render server after makeRenderQueue(): no job, `queue` fulfilled.
QueueInit == TraceOff /\ ServerOff

QueueNext ==
    \/ CreateJob
    \/ StartRender
    \/ \E p \in 1..MaxProgress : Progress(p)
    \/ \E outcome \in {"completed", "failed"} : FinishRender(outcome)
    \/ \E j \in JobIds \cup {UnknownJobId} : Cancel(j)
    \/ \E jobIds \in SUBSET JobIds : StartMonitor(jobIds)
    \/ MonitorTick

QueueSpec == QueueInit /\ [][QueueNext]_vars

\* Each render call terminates, and a due reaction of the chain runs.
QueueFairSpec ==
    /\ QueueSpec
    /\ WF_vars(StartRender)
    /\ WF_vars(\E outcome \in {"completed", "failed"} : FinishRender(outcome))

\* A reviewed-explainer workflow is started on a fresh render queue:
\* iteration = 1 (let i = 1 / buildInitialPropsStep), loop = [].
ReviewInit ==
    /\ TraceOff
    /\ jobs = NoJobs
    /\ chain = <<>>
    /\ chainPos = 0
    /\ queueState = "idle"
    /\ signalled = FALSE
    /\ response = NoResponse
    /\ monitored = {}
    /\ mpc = "off"
    /\ summary = NoSummary
    /\ review \in ReviewInputs
    /\ rpc = "review"
    /\ iteration = 1
    /\ loop = <<>>
    /\ shouldStop = FALSE

ReviewNext ==
    \/ ReviewStep
    \/ LoopCheck
    \/ QueueRender

ReviewSpec == ReviewInit /\ [][ReviewNext]_vars

----------------------------------------------------------------------------
(* Properties *)

PositiveTable(D) == \A n \in DurationNames : D[n] >= 1

NonDecreasingTime(steps) ==
    \A i \in 1..(Len(steps) - 1) : steps[i].t <= steps[i + 1].t

HasStep(steps, type) == \E i \in 1..Len(steps) : steps[i].type = type

\* C1: with a table of positive durations, the steps of every returned trace
\* (and of the trace under construction) carry non-decreasing timestamps, and
\* the first step of a non-empty input is at t = 0.
C1_MonotonicTime ==
    PositiveTable(MergedDurations(cfg)) =>
        /\ NonDecreasingTime(loc.steps)
        /\ \A k \in 1..Len(results) :
              /\ NonDecreasingTime(results[k].steps)
              /\ s # <<>> => results[k].steps[1].t = 0

\* a returned trace, under a caller-supplied table, whose left pointer moved
C1_Witness ==
    /\ Len(results) >= 1
    /\ caller \in TableCallers
    /\ HasStep(results[1].steps, "moveLeftUntil")
    /\ Len(results[1].steps) >= 10

\* C2: folding all events of a returned trace as the scene does gives the
\* length computed by the set-based lengthOfLongestSubstring; 3 for
\* "abcabcbb", 1 for "bbbbb", 3 for "pwwkew".
C2_BestLength ==
    \A k \in 1..Len(results) :
        LET best == FoldAll(results[k].steps).best IN
        /\ best = lengthOfLongestSubstring(s)
        /\ s = Abcabcbb => best = 3
        /\ s = Bbbbb => best = 1
        /\ s = Pwwkew => best = 3

\* the trace of "pwwkew" has been returned and folds to 3
C2_Witness ==
    /\ s = Pwwkew
    /\ Len(results) >= 1
    /\ FoldAll(results[1].steps).best = 3

\* C3: every invocation with the same string and config returns the same
\* steps and duration, and what the scene shows after a render at a frame is
\* the projection of that frame alone, whatever was rendered before.
C3_Deterministic ==
    /\ \A j, k \in 1..Len(results) : results[j] = results[k]
    /\ rendered =>
          LET f == Max(0, absFrame - frameOffset)
              idx == StepIndexOf(SceneTrace.steps, f)
          IN /\ frame = f
             /\ stepIndex = idx
             /\ derived = Derived(SceneTrace.steps, idx)

\* two invocations have returned a trace with a duplicate, and the scene has
\* rendered a frame at which the left pointer has moved
C3_Witness ==
    /\ Len(results) = 2
    /\ HasStep(results[2].steps, "moveLeftUntil")
    /\ rendered
    /\ derived.left > 0
    /\ absFrame < SceneTrace.duration - 1

\* r = Math.round(n / d), stated by the two inequalities that pin it down
IsRounded(r, n, d) == 2 * d * r <= 2 * n + d /\ 2 * n + d < 2 * d * (r + 1)

SpecCfgSet == caller.site = "createVisualSpec" /\ "durations" \in DOMAIN cfg

\* C4: the table createVisualSpec gets from durationsForFps(fps), fps a
\* positive integer, holds, for
\* each baseline entry v, max(1, round(v * fps / 30)): a positive integer;
\* at fps 30 it is the baseline table.
C4_ScaledDurations ==
    (SpecCfgSet /\ caller.fps >= 1) =>
        /\ \A n \in DurationNames :
              LET v == defaultDurations[n]
                  e == cfg.durations[n]
              IN /\ e \in Nat /\ e >= 1
                 /\ \E r \in 0..(v * caller.fps) :
                       IsRounded(r, v * caller.fps, 30) /\ e = Max(1, r)
        /\ caller.fps = 30 =>
              cfg.durations = [moveRight |-> 12, add |-> 6, duplicate |-> 10,
                               moveLeftEach |-> 8, updateBest |-> 8]

\* the table for fps 24 has been computed: 9.6 -> 10, 4.8 -> 5, 8, 6.4 -> 6
C4_Witness ==
    /\ SpecCfgSet
    /\ caller.fps = 24
    /\ cfg.durations.moveRight = 10
    /\ cfg.durations.add = 5

\* C5: the table computed for a positive fps is entry-wise >= the table of every lower
\* frame rate and <= the table of every higher one.
C5_MonotonicScaling ==
    (SpecCfgSet /\ caller.fps >= 1) =>
        \A f \in 1..(MaxFps + 1) :
            LET other == durationsForFps(f, baseFps) IN
            \A n \in DurationNames :
                /\ f <= caller.fps => other[n] <= cfg.durations[n]
                /\ f >= caller.fps => cfg.durations[n] <= other[n]

\* the table for fps 45 has been computed
C5_Witness ==
    /\ SpecCfgSet
    /\ caller.fps = 45
    /\ cfg.durations.moveRight = 18

\* the trace createVisualSpec gets at the baseline rate
BaselineTrace ==
    traceLongestSubstring(s, [durations |-> durationsForFps(baseFps, baseFps), fps |-> baseFps])

\* C6: at fps = 30 * k the table is k times the baseline table, and every
\* step timestamp and the duration of the trace are k times those of the
\* trace at fps 30.
C6_Proportional ==
    (SpecCfgSet /\ caller.fps >= 1 /\ caller.fps % 30 = 0) =>
        LET k == caller.fps \div 30
            base == BaselineTrace
        IN
        /\ \A n \in DurationNames : cfg.durations[n] = k * defaultDurations[n]
        /\ \A j \in 1..Len(results) :
              /\ Len(results[j].steps) = Len(base.steps)
              /\ \A i \in 1..Len(results[j].steps) :
                    /\ results[j].steps[i].t = k * base.steps[i].t
                    /\ results[j].steps[i].type = base.steps[i].type
              /\ results[j].duration = k * base.duration

\* the trace at fps 60 of a string with a duplicate has been returned
C6_Witness ==
    /\ SpecCfgSet
    /\ caller.fps = 60
    /\ Len(results) >= 1
    /\ HasStep(results[1].steps, "moveLeftUntil")
    /\ results[1].duration > 60

Abs(x) == IF x >= 0 THEN x ELSE -x

\* C7: the trace of the empty string has no step and lasts
\* max(1, round(tailSeconds * fps)) frames; 30 with the defaults.
C7_EmptyInput ==
    s = <<>> =>
        \A k \in 1..Len(results) :
            LET n == TailSec(cfg).num * FpsUsed(cfg)
                d == TailSec(cfg).den
            IN /\ results[k].steps = <<>>
               /\ \E r \in (-Abs(n) - 1)..(Abs(n) + 1) :
                     IsRounded(r, n, d) /\ results[k].duration = Max(1, r)
               /\ ("tailSeconds" \notin DOMAIN cfg /\ "fps" \notin DOMAIN cfg)
                     => results[k].duration = 30

\* the empty string has been traced with a tail of 0 seconds
C7_Witness ==
    /\ s = <<>>
    /\ Len(results) >= 1
    /\ "tailSeconds" \in DOMAIN cfg
    /\ cfg.tailSeconds.num = 0
    /\ results[1].duration = 1

\* A step without its timestamp: <<type, index or start, end, char>>.
Event(st) ==
    CASE st.type = "moveRight" -> <<"moveRight", st.index, -1, st.char>>
      [] st.type = "addToSet" -> <<"addToSet", -1, -1, st.char>>
      [] st.type = "foundDuplicate" -> <<"foundDuplicate", st.atIndex, -1, st.char>>
      [] st.type = "moveLeftUntil" -> <<"moveLeftUntil", st.fromIndex, st.stopAtIndex, "">>
      [] st.type = "updateBest" -> <<"updateBest", st.start, st.end, "">>

StartsWith(steps, events) ==
    /\ Len(steps) >= Len(events)
    /\ \A i \in 1..Len(events) : Event(steps[i]) = events[i]

BaselineCall == MergedDurations(cfg) = defaultDurations /\ FpsUsed(cfg) = baseFps

StepLists == {loc.steps} \cup {results[k].steps : k \in 1..Len(results)}

BestLenOf(st) == st.end - st.start + 1

\* the largest length recorded by an updateBest among steps[1..i], 0 if none
RecordedBest(steps, i) ==
    LET lens == {0} \cup {BestLenOf(steps[j]) :
                            j \in {x \in 1..i : steps[x].type = "updateBest"}}
    IN CHOOSE m \in lens : \A x \in lens : x <= m

\* C9: an updateBest comes right after the addToSet of an iteration whose
\* window [left, right] is strictly longer than every length recorded before,
\* and carries that window; so the recorded lengths strictly increase.
C9_UpdateBestStrict ==
    \A steps \in StepLists :
        /\ \A i \in 1..Len(steps) :
              steps[i].type = "updateBest" =>
                  /\ i > 1 /\ steps[i - 1].type = "addToSet"
                  /\ LET d == FoldFrom(steps, 0, i - 2, NoDerived) IN
                     /\ steps[i].start = d.left /\ steps[i].end = d.right
                     /\ d.right - d.left + 1 > RecordedBest(steps, i - 1)
        /\ \A i, j \in 1..Len(steps) :
              (i < j /\ steps[i].type = "updateBest" /\ steps[j].type = "updateBest")
                  => BestLenOf(steps[i]) < BestLenOf(steps[j])

\* a returned trace with two updateBest events whose last iteration, with a
\* window no longer than the best, emitted none
C9_Witness ==
    /\ Len(results) >= 1
    /\ LET steps == results[1].steps IN
       /\ Len(steps) >= 1
       /\ steps[Len(steps)].type = "addToSet"
       /\ Cardinality({i \in 1..Len(steps) : steps[i].type = "updateBest"}) >= 2
       /\ HasStep(steps, "moveLeftUntil")

\* <<type, index, char>> of a step, for the shape of an iteration
Key(st) ==
    CASE st.type = "moveRight" -> <<"moveRight", st.index, st.char>>
      [] st.type = "foundDuplicate" -> <<"foundDuplicate", st.atIndex, st.char>>
      [] st.type = "moveLeftUntil" -> <<"moveLeftUntil", -1, "">>
      [] st.type = "addToSet" -> <<"addToSet", -1, st.char>>
      [] st.type = "updateBest" -> <<"updateBest", st.end, "">>

\* The steps are n iterations 0..n-1 over str, each of the stated shape.
IterationShape(steps, str, n) ==
    LET P == {i \in 1..Len(steps) : steps[i].type = "moveRight"} IN
    /\ Cardinality(P) = n
    /\ steps # <<>> => steps[1].type = "moveRight"
    /\ \A i \in P :
          LET r == Cardinality({j \in P : j < i})
              later == {j \in P : j > i}
              last == IF later = {} THEN Len(steps)
                      ELSE (CHOOSE j \in later : \A x \in later : j <= x) - 1
              c == CharAt(str, r)
              lft == FoldFrom(steps, 0, i - 2, NoDerived).left
              dup == \E j \in lft..(r - 1) : CharAt(str, j) = c
              body == [j \in 1..(last - i + 1) |-> Key(steps[i + j - 1])]
              core == <<<<"moveRight", r, c>>>>
                      \o (IF dup THEN <<<<"foundDuplicate", r, c>>, <<"moveLeftUntil", -1, "">>>>
                          ELSE <<>>)
                      \o <<<<"addToSet", -1, c>>>>
          IN body = core \/ body = core \o <<<<"updateBest", r, "">>>>

\* C10: every trace is the concatenation of the iterations 0, 1, ... in
\* order, each one moveRight{r, s[r]}, then foundDuplicate{s[r], r} and
\* moveLeftUntil exactly when s[r] occurs in the current window, then
\* addToSet{s[r]}, then possibly updateBest{end r}.
C10_IterationOrder ==
    /\ IterationShape(loc.steps, s, loc.right)
    /\ \A k \in 1..Len(results) : IterationShape(results[k].steps, s, Len(s))

\* a returned trace with an iteration that only adds, one that adds and
\* updates the best, and one that finds a duplicate
C10_Witness ==
    /\ Len(results) >= 1
    /\ LET steps == results[1].steps IN
       /\ \E i \in 2..(Len(steps) - 1) :
             /\ steps[i].type = "addToSet"
             /\ steps[i - 1].type = "moveRight"
             /\ steps[i + 1].type = "moveRight"
       /\ \E i \in 2..(Len(steps) - 1) :
             /\ steps[i].type = "addToSet"
             /\ steps[i - 1].type = "moveRight"
             /\ steps[i + 1].type = "updateBest"
       /\ \E i \in 3..(Len(steps) - 1) :
             /\ steps[i].type = "addToSet"
             /\ steps[i - 1].type = "moveLeftUntil"
             /\ steps[i - 2].type = "foundDuplicate"
             /\ steps[i + 1].type = "moveRight"

AllSame(str) == \A i, j \in 1..Len(str) : str[i] = str[j]

\* the events of the trace of n >= 1 copies of c, as the claim lists them
IdenticalEvents(n, c) ==
    [i \in 1..(3 + 4 * (n - 1)) |->
        IF i = 1 THEN <<"moveRight", 0, -1, c>>
        ELSE IF i = 2 THEN <<"addToSet", -1, -1, c>>
        ELSE IF i = 3 THEN <<"updateBest", 0, 0, "">>
        ELSE LET r == ((i - 4) \div 4) + 1
                 k == (i - 4) % 4
             IN CASE k = 0 -> <<"moveRight", r, -1, c>>
                  [] k = 1 -> <<"foundDuplicate", r, -1, c>>
                  [] k = 2 -> <<"moveLeftUntil", r - 1, r, "">>
                  [] OTHER -> <<"addToSet", -1, -1, c>>]

\* C11: for n >= 1 identical symbols, iteration 0 emits moveRight, addToSet
\* and the only updateBest, of range [0,0]; every iteration r >= 1 emits
\* moveRight, foundDuplicate{atIndex r}, moveLeftUntil{r-1, r}, addToSet.
C11_IdenticalSymbols ==
    (s # <<>> /\ AllSame(s)) =>
        \A k \in 1..Len(results) :
            LET steps == results[k].steps IN
            /\ Len(steps) = 3 + 4 * (Len(s) - 1)
            /\ StartsWith(steps, IdenticalEvents(Len(s), s[1]))
            /\ Cardinality({i \in 1..Len(steps) : steps[i].type = "updateBest"}) = 1

\* "bbbbb" has been traced
C11_Witness ==
    /\ s = Bbbbb
    /\ Len(results) >= 1
    /\ Len(results[1].steps) = 19

\* the frames the clock advances by after a step, as the claim states them
ClockIncrement(st, D) ==
    CASE st.type = "moveRight" -> D.moveRight
      [] st.type = "foundDuplicate" -> D.duplicate
      [] st.type = "addToSet" -> D.add
      [] st.type = "updateBest" -> D.updateBest
      [] st.type = "moveLeftUntil" ->
            (IF st.stopAtIndex - st.fromIndex >= 1 THEN st.stopAtIndex - st.fromIndex ELSE 1)
                * D.moveLeftEach

ClockAccounted(steps, D) ==
    \A i \in 1..(Len(steps) - 1) :
        steps[i + 1].t - steps[i].t = ClockIncrement(steps[i], D)

\* C12: consecutive timestamps differ by the table entry of the earlier step
\* (max(1, stopAtIndex - fromIndex) * moveLeftEach for a moveLeftUntil), and
\* the duration is the last timestamp plus that step's increment plus
\* max(1, round(tailSeconds * fps)), hence >= the last timestamp.
C12_ClockAccounting ==
    LET D == MergedDurations(cfg) IN
    /\ ClockAccounted(loc.steps, D)
    /\ \A k \in 1..Len(results) :
          LET steps == results[k].steps
              n == TailSec(cfg).num * FpsUsed(cfg)
              d == TailSec(cfg).den
          IN /\ ClockAccounted(steps, D)
             /\ steps # <<>> =>
                   /\ \E r \in (-Abs(n) - 1)..(Abs(n) + 1) :
                         /\ IsRounded(r, n, d)
                         /\ results[k].duration =
                               steps[Len(steps)].t + ClockIncrement(steps[Len(steps)], D)
                               + (IF r >= 1 THEN r ELSE 1)
                   /\ results[k].duration >= steps[Len(steps)].t

\* a returned trace, under a table with moveLeftEach = MaxDur, whose left
\* pointer moved by more than one index
C12_Witness ==
    /\ Len(results) >= 1
    /\ "durations" \in DOMAIN cfg
    /\ MergedDurations(cfg).moveLeftEach = MaxDur
    /\ MergedDurations(cfg).add = 1
    /\ \E i \in 1..Len(results[1].steps) :
          /\ results[1].steps[i].type = "moveLeftUntil"
          /\ results[1].steps[i].stopAtIndex - results[1].steps[i].fromIndex >= 2

----------------------------------------------------------------------------
(* Timeline of the explainer *)

\* The intro, example and outro Sequences in the order they were pushed
\* (the label overlays left out).
Timeline == SelectSeq(sequences, LAMBDA q : q.key # "label")

EndOf(q) == q.from + q.durationInFrames

RECURSIVE SumOfDurs(_)
SumOfDurs(segs) ==
    IF segs = <<>> THEN 0 ELSE Head(segs).dur + SumOfDurs(Tail(segs))

DefaultExamples == <<Abcabcbb, Bbbbb, Pwwkew>>

\* C13: once the explainer has laid out its timeline for a list of examples
\* (the empty list included), computeExplainerDuration(examples) equals the
\* outro's start plus its duration, and equals
\* 120 + sum of the trace durations + 120 - 3 * (number of examples + 1).
C13_DurationMatchesLayout ==
    epc = "done" =>
        LET outro == sequences[Len(sequences)]
        IN /\ outro.key = "outro"
           /\ outro.durationInFrames = 120
           /\ durationInFrames = outro.from + outro.durationInFrames
           /\ durationInFrames =
                 120 + SumOfDurs(segments) + 120 - 3 * (Len(examples) + 1)
           /\ Len(segments) = Len(examples)
           /\ \A i \in 1..Len(examples) :
                 segments[i].dur = traceLongestSubstring(examples[i], NoCfg).duration

C13_Witness ==
    /\ epc = "done"
    /\ examples = DefaultExamples
    /\ durationInFrames = sequences[Len(sequences)].from + 120

\* C14 (as stated): with two examples of trace durations d1 and d2, the
\* assembled timeline has total duration 120 + d1 + d2 + 120 and every
\* segment starts where the prior segment ends (no overlap, no gap).
C14_HardCutTimeline ==
    (epc = "done" /\ Len(examples) = 2) =>
        /\ durationInFrames = 120 + segments[1].dur + segments[2].dur + 120
        /\ \A i \in 2..Len(Timeline) : Timeline[i].from = EndOf(Timeline[i - 1])

\* C15: the intro, example and outro segments, in the order they are laid
\* out, have non-decreasing start frames, and every start frame is >= 0.
C15_StartsSorted ==
    /\ \A i \in 1..Len(sequences) : sequences[i].from >= 0
    /\ \A i \in 2..Len(Timeline) : Timeline[i - 1].from <= Timeline[i].from

C15_Witness ==
    /\ epc = "done"
    /\ Len(examples) = MaxExamples
    /\ Len(Timeline) = MaxExamples + 2
    /\ Timeline[2].from < Timeline[3].from
    /\ \E i \in 1..Len(examples) : examples[i] = <<>>

\* C16: the assembled timeline has no gap: every frame of
\* [0, durationInFrames) lies in the window [from, from + duration) of some
\* intro, example or outro segment; each segment starts exactly 3 frames
\* before the preceding one ends; with no examples the outro follows the
\* intro with no uncovered frame between them.
C16_NoGap ==
    epc = "done" =>
        /\ \A f \in 0..(durationInFrames - 1) :
              \E i \in 1..Len(Timeline) :
                  Timeline[i].from <= f /\ f < EndOf(Timeline[i])
        /\ \A i \in 2..Len(Timeline) :
              Timeline[i].from = EndOf(Timeline[i - 1]) - 3
        /\ examples = <<>> =>
              /\ Len(Timeline) = 2
              /\ Timeline[1].from = 0
              /\ Timeline[2].from <= EndOf(Timeline[1])
              /\ EndOf(Timeline[2]) = durationInFrames

C16_Witness ==
    /\ epc = "done"
    /\ examples = <<>>
    /\ Len(sequences) = 2
    /\ sequences[2].from = 117
    /\ durationInFrames = 237

----------------------------------------------------------------------------
(* Projection of a trace at a frame *)

\* 0-based indices of the events up to index upto that have the given type
IndicesOf(steps, upto, type) ==
    {j \in 0..upto : j < Len(steps) /\ steps[j + 1].type = type}

SetMax(S) == CHOOSE x \in S : \A y \in S : y <= x

\* the last event of the given type among steps[0..upto]
LastOf(steps, upto, type) == steps[SetMax(IndicesOf(steps, upto, type)) + 1]

\* C17: for a non-empty trace and a frame >= 0, the scene selects the event
\* with the largest index i such that steps[i].t <= frame, and its derived
\* state is the fold of steps[0..i]: left = stopAtIndex of the last
\* moveLeftUntil (else 0), right = index of the last moveRight (else -1),
\* best = end - start + 1 of the last updateBest (else 0).
C17_Projection ==
    (rendered /\ SceneTrace.steps # <<>>) =>
        LET steps == SceneTrace.steps
            i == stepIndex
        IN /\ frame >= 0
           /\ i \in 0..(Len(steps) - 1)
           /\ steps[i + 1].t <= frame
           /\ \A j \in 0..(Len(steps) - 1) : steps[j + 1].t <= frame => j <= i
           /\ ~derived.threw
           /\ derived.left =
                 IF IndicesOf(steps, i, "moveLeftUntil") = {} THEN 0
                 ELSE LastOf(steps, i, "moveLeftUntil").stopAtIndex
           /\ derived.right =
                 IF IndicesOf(steps, i, "moveRight") = {} THEN -1
                 ELSE LastOf(steps, i, "moveRight").index
           /\ derived.best =
                 IF IndicesOf(steps, i, "updateBest") = {} THEN 0
                 ELSE LastOf(steps, i, "updateBest").end
                      - LastOf(steps, i, "updateBest").start + 1

C17_Witness ==
    /\ rendered
    /\ Len(s) = MaxLen
    /\ stepIndex >= 1
    /\ stepIndex < Len(SceneTrace.steps) - 1
    /\ SceneTrace.steps[stepIndex + 1].t < frame
    /\ derived.left >= 1
    /\ derived.right > derived.left
    /\ derived.best >= 2

\* C18 (as stated): when no event is selected (no event has t <= frame,
\* as at every frame of the trace of the empty string), the projection
\* returns left = 0, right = -1, best = 0 and does not fail.
C18_NoEventDefaults ==
    (rendered /\ \A j \in 1..Len(SceneTrace.steps) : SceneTrace.steps[j].t > frame) =>
        /\ ~derived.threw
        /\ derived.left = 0
        /\ derived.right = -1
        /\ derived.best = 0

\* C19: two renders of the same trace at frames f1 <= f2 give
\* left(f1) <= left(f2), and two at the same frame give equal results; what
\* a render yields is a function of the trace and the frame.
C19_LeftMonotonic ==
    [][(rendered /\ rendered') =>
          /\ derived = Derived(SceneTrace.steps, StepIndexOf(SceneTrace.steps, frame))
          /\ frame' = frame => (stepIndex' = stepIndex /\ derived' = derived)
          /\ (frame <= frame' /\ ~derived.threw /\ ~derived'.threw) =>
                derived.left <= derived'.left
          /\ (frame >= frame' /\ ~derived.threw /\ ~derived'.threw) =>
                derived.left >= derived'.left
      ]_vars

C19_Witness ==
    /\ rendered
    /\ ~derived.threw
    /\ derived.left >= 2
    /\ stepIndex < Len(SceneTrace.steps) - 1
    /\ frameOffset = MaxFrameOffset
    /\ absFrame > frame

----------------------------------------------------------------------------
(* Invalid timing arguments *)

\* the error value the callers are to receive
InvalidArgument == [error |-> "InvalidArgument"]

NegativeTail(c) == "tailSeconds" \in DOMAIN c /\ c.tailSeconds.num < 0

\* C20 (as stated): durationsForFps called with fps <= 0 returns an
\* InvalidArgument error value rather than a duration table, and
\* traceLongestSubstring called with a negative tail returns an
\* InvalidArgument error value rather than a trace result.
C20_InvalidRejected ==
    /\ (SpecCfgSet /\ caller.fps <= 0) => cfg.durations = InvalidArgument
    /\ (caller = ZeroFpsCaller /\ "durations" \in DOMAIN cfg) =>
          cfg.durations = InvalidArgument
    /\ (Len(results) >= 1 /\ NegativeTail(cfg)) =>
          \A k \in 1..Len(results) : results[k] = InvalidArgument

\* What the code returns for these arguments: every duration clamped to 1
\* frame, and a tail clamped to 1 frame.
C20_ClampedInstead ==
    /\ (SpecCfgSet /\ caller.fps <= 0) =>
          cfg.durations = [n \in DurationNames |-> 1]
    /\ (caller = ZeroFpsCaller /\ "durations" \in DOMAIN cfg) =>
          cfg.durations = [n \in DurationNames |-> 1]
    /\ (NegativeTail(cfg) /\ FpsUsed(cfg) > 0) =>
          \A k \in 1..Len(results) :
              /\ results[k].steps = traceLongestSubstring(s, NoCfg).steps
              /\ results[k].duration =
                    traceLongestSubstring(s, NoCfg).duration - baseFps + 1

\* C21 (as stated): a render at a global frame smaller than the scene's
\* frameOffset (a negative local frame) yields an InvalidArgument error and
\* the frame is not clamped to 0.
C21_NegativeFrameRejected ==
    (rendered /\ absFrame < frameOffset) =>
        /\ derived = InvalidArgument
        /\ frame # 0

\* What the code does with such a frame: it projects the trace at frame 0.
C21_ClampedInstead ==
    (rendered /\ absFrame < frameOffset) =>
        /\ frame = 0
        /\ stepIndex = 0
        /\ derived = Derived(SceneTrace.steps, 0)

----------------------------------------------------------------------------
(* The scene inside an example segment *)

ShownTrace == traceLongestSubstring(segments[shown].s, NoCfg)

\* C27 (as stated): at a global frame g inside the window of example i the
\* scene of that segment projects the example's trace at local frame
\* g - start_i; so at g = start_i + steps[j].t step j is the active event.
C27_SegmentLocalFrame ==
    epc = "shown" =>
        LET start == ExampleSequence(shown).from
            steps == ShownTrace.steps
        IN /\ start <= globalFrame
           /\ globalFrame < start + ExampleSequence(shown).durationInFrames
           /\ ExampleSequence(shown).durationInFrames = ShownTrace.duration
           /\ \A j \in 1..Len(steps) : steps[j].t < ShownTrace.duration
           /\ frame = globalFrame - start
           /\ \A j \in 1..Len(steps) :
                 globalFrame = start + steps[j].t => stepIndex = j - 1

\* What the scene projects: the frame it reads is already relative to the
\* segment's start, and the scene subtracts frameOffset = start once more.
C27_ShiftedTwice ==
    epc = "shown" =>
        LET start == ExampleSequence(shown).from
        IN /\ absFrame = globalFrame - start
           /\ frame = Max(0, globalFrame - 2 * start)
           /\ stepIndex = StepIndexOf(ShownTrace.steps, Max(0, globalFrame - 2 * start))

----------------------------------------------------------------------------
(* The window of the tracer *)

\* the set-based algorithm after it has processed the indices 0..r-1 of str
ReferenceAfter(str, r) ==
    ReferenceLoop([set |-> {}, left |-> 0, best |-> 0], 0, SubSeq(str, 1, r))

\* the characters str[lft..rgt] (0-based, inclusive)
CharsOf(str, lft, rgt) == {CharAt(str, i) : i \in lft..rgt}

NoRepeat(str, lft, rgt) ==
    \A i, j \in lft..rgt : i # j => CharAt(str, i) # CharAt(str, j)

\* C28: after each processed index r the tracer's left pointer equals the
\* left pointer of the set-based algorithm after index r, and the characters
\* s[left..r] are exactly that algorithm's membership set.
C28_MatchesSetAlgorithm ==
    (pc = "loop" /\ loc.right >= 1) =>
        LET r == loc.right - 1
            ref == ReferenceAfter(s, loc.right)
        IN /\ loc.left = ref.left
           /\ CharsOf(s, loc.left, r) = ref.set
           /\ Cardinality(ref.set) = r - loc.left + 1

C28_Witness ==
    /\ pc = "loop"
    /\ loc.right = Len(s)
    /\ Len(s) = MaxLen
    /\ loc.left >= 2
    /\ loc.right - loc.left >= 2
    /\ \E i \in 1..Len(loc.steps) :
          /\ loc.steps[i].type = "moveLeftUntil"
          /\ loc.steps[i].stopAtIndex - loc.steps[i].fromIndex >= 2

\* C29: for a non-empty string and a frame >= 0 the projected pointers
\* satisfy 0 <= left <= right <= len(s) - 1, and when the active event is
\* addToSet or updateBest the window s[left..right] has no repeated character.
C29_ProjectedWindow ==
    (rendered /\ s # <<>> /\ caller.site = "Scene") =>
        LET currentStep == SceneTrace.steps[stepIndex + 1]
        IN /\ frame >= 0
           /\ 0 <= derived.left
           /\ derived.left <= derived.right
           /\ derived.right <= Len(s) - 1
           /\ currentStep.type \in {"addToSet", "updateBest"} =>
                 NoRepeat(s, derived.left, derived.right)

C29_Witness ==
    /\ rendered
    /\ caller.site = "Scene"
    /\ Len(s) = MaxLen
    /\ SceneTrace.steps[stepIndex + 1].type = "addToSet"
    /\ derived.left >= 1
    /\ derived.right = MaxLen - 1
    /\ stepIndex >= 1
    /\ SceneTrace.steps[stepIndex].type = "moveLeftUntil"

\* the moveRight of the iteration that pushed steps[i]: the last one before i
MoveRightBefore(steps, i) ==
    steps[SetMax({j \in 1..i : steps[j].type = "moveRight"})]

\* the stopAtIndex of the last moveLeftUntil before steps[i], 0 if none
LeftBefore(steps, i) ==
    LET prev == {j \in 1..(i - 1) : steps[j].type = "moveLeftUntil"}
    IN IF prev = {} THEN 0 ELSE steps[SetMax(prev)].stopAtIndex

\* C30: every moveLeftUntil has fromIndex < stopAtIndex <= index of the
\* moveRight of its iteration, and its fromIndex is the stopAtIndex of the
\* previous moveLeftUntil (0 if none); so max(1, stopAtIndex - fromIndex) is
\* stopAtIndex - fromIndex.
MoveLeftShape(steps) ==
    \A i \in 1..Len(steps) :
        steps[i].type = "moveLeftUntil" =>
            /\ steps[i].fromIndex < steps[i].stopAtIndex
            /\ steps[i].stopAtIndex <= MoveRightBefore(steps, i).index
            /\ steps[i].fromIndex = LeftBefore(steps, i)
            /\ Max(1, steps[i].stopAtIndex - steps[i].fromIndex)
                 = steps[i].stopAtIndex - steps[i].fromIndex

C30_MoveLeftBounds ==
    /\ MoveLeftShape(loc.steps)
    /\ \A k \in 1..Len(results) : MoveLeftShape(results[k].steps)

C30_Witness ==
    /\ Len(results) >= 1
    /\ \E i, j \in 1..Len(results[1].steps) :
          LET steps == results[1].steps
          IN /\ i < j
             /\ steps[i].type = "moveLeftUntil"
             /\ steps[j].type = "moveLeftUntil"
             /\ steps[j].fromIndex = steps[i].stopAtIndex
             /\ steps[j].stopAtIndex - steps[j].fromIndex >= 2
             /\ steps[j].stopAtIndex = MoveRightBefore(steps, j).index

----------------------------------------------------------------------------
(* The render queue *)

Terminal(j) == Has(j) /\ jobs[j].status \in {"completed", "failed"}

Active(j) == Has(j) /\ jobs[j].status \in {"queued", "in-progress"}

\* a cancel request has just been answered
Answered == response' # response

C23_ExitsWhenAllDone ==
    mpc = "exited" => \A j \in monitored : ~Active(j)

\* What the exit condition guarantees: no monitored job is in-progress at
\* the last tick.
C23_ExitsWhenNoneInProgress ==
    mpc = "exited" => summary.inProgress = 0

\* C24 (as stated): the workflow repeats the review until a review meets the
\* criteria or maxIterations reviews are done, never does more than
\* maxIterations reviews, and then queues exactly one render job; the count
\* is the same for the class-based and the step-based workflow.
C24_ReviewsUntilMet ==
    rpc = "done" =>
        /\ Len(loop) = IF MetCriteria(review) THEN 1 ELSE review.maxIterations
        /\ Len(loop) <= review.maxIterations
        /\ Len(chain) = 1
        /\ DOMAIN jobs = {1}

\* What the workflows do: exactly one review, whatever the input.
C24_AlwaysOneReview ==
    rpc = "done" => (Len(loop) = 1 /\ shouldStop /\ Len(chain) = 1)

\* C25 (as stated): every created job that is not cancelled eventually is
\* completed or failed (a job cancelled while queued leaves the map, one
\* cancelled while in-progress fails), whatever other jobs were cancelled.
C25_EveryJobFinishes ==
    \A j \in JobIds : [](Has(j) => <>(~Has(j) \/ Terminal(j)))

\* The state the queue is left in: `queue` rejected, later jobs queued.
C25_StuckReachable ==
    ~(queueState = "rejected" /\ \E j \in JobIds : Has(j) /\ jobs[j].status = "queued")

Rank(st) == CASE st = "queued" -> 0 [] st = "in-progress" -> 1 [] OTHER -> 2

InProgress(j) == Has(j) /\ jobs[j].status = "in-progress"

\* C26: at most one job is in-progress; a job becomes in-progress only when
\* every job created before it is completed, failed or cancelled; a job's
\* status only moves forward: queued -> in-progress -> completed or failed.
C26_OneAtATime ==
    [][/\ Cardinality({j \in JobIds : InProgress(j)}) <= 1
       /\ Cardinality({j \in JobIds : j \in DOMAIN jobs' /\ jobs'[j].status = "in-progress"}) <= 1
       /\ \A j \in JobIds :
             (j \in DOMAIN jobs' /\ jobs'[j].status = "in-progress" /\ ~InProgress(j)) =>
                 /\ Has(j) /\ jobs[j].status = "queued"
                 /\ \A k \in 1..(j - 1) : ~Has(k) \/ Terminal(k)
       /\ \A j \in JobIds :
             (Has(j) /\ j \in DOMAIN jobs') =>
                 /\ Rank(jobs[j].status) <= Rank(jobs'[j].status)
                 /\ Terminal(j) => jobs'[j].status = jobs[j].status
      ]_vars

C26_Witness ==
    /\ Len(chain) = MaxJobs
    /\ Has(1) /\ jobs[1].status = "completed"
    /\ Has(2) /\ jobs[2].status = "in-progress" /\ jobs[2].progress = MaxProgress
    /\ Has(MaxJobs) /\ jobs[MaxJobs].status = "queued"

====
